---- MODULE Spec2Model ----
(***************************************************************************)
(* Named-dimension handlers of pyro.contrib.funsor                         *)
(* (handlers/named_messenger.py) over the dimension stack _DIM_STACK.      *)
(*                                                                         *)
(* The handler classes are translated from named_messenger.py.  The        *)
(* dimension stack itself (handlers/runtime.py: StackFrame, DimStack) and  *)
(* the effect-handler runtime (pyro.poutine: ReentrantMessenger,           *)
(* Messenger, apply_stack) are not among the source files; they are        *)
(* modelled from the specification (sections 3, 4.1, 4.2, 4.4, 6).         *)
(***************************************************************************)
EXTENDS Integers, Sequences, FiniteSets, TLC

VARIABLES
    ref_count,            \* handler -> ReentrantMessenger._ref_count
    saved_dims,           \* handler -> DimStackCleanupMessenger._saved_dims
    saved_globals,        \* handler -> GlobalNamedMessenger._saved_globals
    saved_frames,         \* handler -> LocalNamedMessenger._saved_frames
    prev_first_dim,       \* handler -> BaseEnumMessenger._prev_first_dim
    frames,               \* _DIM_STACK: the stack of local frames, innermost last
    global_frame,         \* _DIM_STACK.global_frame
    outermost,            \* _DIM_STACK.outermost
    iter_frame,           \* _DIM_STACK.iter_frame (the id of the frame)
    first_available_dim,  \* _DIM_STACK cursor
    pyro_stack,           \* the effect-handler stack, innermost last
    ctl,                  \* the program's open with-blocks and iterations
    msg,                  \* the message of the last conversion call
    ev,                   \* the last operation
    first_run,            \* handler -> ids of the frames its k-th nested entry first got
    resolved,             \* name -> the first GLOBAL/VISIBLE resolution still owned
    released              \* handler -> the owned names' bindings at its final exit

vars == <<ref_count, saved_dims, saved_globals, saved_frames, prev_first_dim,
          frames, global_frame, outermost, iter_frame, first_available_dim,
          pyro_stack, ctl, msg, ev, first_run, resolved, released>>

(***************************************************************************)
(* Bounds of the model.                                                    *)
(***************************************************************************)
\* total number of nested entries (with-blocks, iterations and their steps)
MaxDepth == 3
\* longest _saved_globals tuple a handler may accumulate
MaxSaved == 3
\* number of steps of the iteration scenario
MaxSteps == 5
\* with-block entries nested in the programs over global-binding handlers
MaxNest == 2
\* local scopes nested in one another (test_nesting)
MaxLevels == 4
\* deepest dim (-MaxDim) a conversion may bind in the global frame in the
\* programs over global-binding handlers
MaxDim == 2

(***************************************************************************)
(* Values.                                                                 *)
(***************************************************************************)
None == "None"
\* the dim None (dims are negative integers)
NoDim == 0
\* the id of the global frame; local frames have ids 1, 2, ...
GlobalId == 0
\* iter_frame before any iteration
NoFrame == -1

\* a name written by the program
N(s) == <<s, 0>>
NoName == <<"None", 0>>
\* the synthetic ordinal name of a dim that was given no name
SynName(dim) == <<"_pyro_dim", -dim>>

\* DimType
DimLocal == "LOCAL"
DimGlobal == "GLOBAL"
DimVisible == "VISIBLE"

Last(seq) == seq[Len(seq)]
Front(seq) == SubSeq(seq, 1, Len(seq) - 1)
Reverse(seq) == [i \in 1..Len(seq) |-> seq[Len(seq) + 1 - i]]
Max(a, b) == IF a >= b THEN a ELSE b
Min(a, b) == IF a <= b THEN a ELSE b
Range(seq) == {seq[i] : i \in DOMAIN seq}

(***************************************************************************)
(* Ordered dictionaries: sequences of <<key, value>> in insertion order.   *)
(***************************************************************************)
Keys(map) == {map[i][1] : i \in DOMAIN map}
HasKey(map, k) == \E i \in DOMAIN map : map[i][1] = k
MapGet(map, k, default) ==
    IF HasKey(map, k)
    THEN map[CHOOSE i \in DOMAIN map : map[i][1] = k][2]
    ELSE default
\* map[k] = v: an existing key keeps its place
MapSet(map, k, v) ==
    IF HasKey(map, k)
    THEN [i \in DOMAIN map |-> IF map[i][1] = k THEN <<k, v>> ELSE map[i]]
    ELSE Append(map, <<k, v>>)
MapDel(map, k) == SelectSeq(map, LAMBDA p : p[1] # k)

(***************************************************************************)
(* StackFrame (specification 3 and 4.1).                                   *)
(* name_to_dim is an ordered dictionary (the cleanup handler iterates it), *)
(* dim_to_name a set of <<dim, name>> with one pair per dim.               *)
(***************************************************************************)
StackFrame(id, history, keep) ==
    [id |-> id, name_to_dim |-> <<>>, dim_to_name |-> {},
     history |-> history, keep |-> keep]

HasName(f, name) == HasKey(f.name_to_dim, name)
HasDim(f, dim) == \E p \in f.dim_to_name : p[1] = dim
\* read(name), read(dim): the counterpart, without mutation
ReadName(f, name) == MapGet(f.name_to_dim, name, NoDim)
ReadDim(f, dim) ==
    IF HasDim(f, dim) THEN (CHOOSE p \in f.dim_to_name : p[1] = dim)[2] ELSE NoName
UsedDims(f) == {p[1] : p \in f.dim_to_name}

\* the two maps of a frame are mutual inverses
Bijective(f) ==
    /\ \A i, j \in DOMAIN f.name_to_dim :
           (f.name_to_dim[i][1] = f.name_to_dim[j][1]
            \/ f.name_to_dim[i][2] = f.name_to_dim[j][2]) => i = j
    /\ f.dim_to_name = {<<p[2], p[1]>> : p \in Range(f.name_to_dim)}

\* the condition specification 4.1 puts on write(name, dim): no other name is
\* bound to dim in the frame and name is bound to no other dim
WriteCondition(f, name, dim) ==
    /\ \A p \in f.dim_to_name : (p[1] = dim) <=> (p[2] = name)
    /\ \A i \in DOMAIN f.name_to_dim :
           (f.name_to_dim[i][1] = name) <=> (f.name_to_dim[i][2] = dim)

\* write(name, dim): inserts or overwrites the mapping, one store into each
\* dictionary.  Meeting WriteCondition is left to the caller: a write that
\* does not meet it leaves the other binding of dim, or of name, behind in
\* one of the two dictionaries.
Write(f, name, dim) ==
    [f EXCEPT !.name_to_dim = MapSet(@, name, dim),
              !.dim_to_name = {p \in @ : p[1] # dim} \cup {<<dim, name>>}]

\* free(name, dim): removes the mapping if present; a no-op if absent
Free(f, name, dim) ==
    IF HasName(f, name) /\ ReadName(f, name) = dim
    THEN [f EXCEPT !.name_to_dim = MapDel(@, name),
                   !.dim_to_name = @ \ {<<dim, name>>}]
    ELSE f

RECURSIVE WriteAll(_, _)
WriteAll(f, pairs) ==
    IF pairs = <<>> THEN f
    ELSE WriteAll(Write(f, Head(pairs)[1], Head(pairs)[2]), Tail(pairs))

RECURSIVE FreeAll(_, _)
FreeAll(f, pairs) ==
    IF pairs = <<>> THEN f
    ELSE FreeAll(Free(f, Head(pairs)[1], Head(pairs)[2]), Tail(pairs))

(***************************************************************************)
(* DimStack (specification 3 and 4.2).                                     *)
(***************************************************************************)
\* current_frame: the innermost frame; the global frame while no scope is open
CurrentFrame(frs, gf) == IF frs = <<>> THEN gf ELSE Last(frs)

\* the current frame and the `history` frames directly below it, nearest first
Window(frs) ==
    IF frs = <<>> THEN <<>>
    ELSE LET lo == Max(1, Len(frs) - Last(frs).history)
         IN  [i \in 1..(Len(frs) - lo + 1) |-> frs[Len(frs) + 1 - i]]

\* the frames a request reads, in search order: the global frame alone for
\* GLOBAL and VISIBLE; for LOCAL the window, and the global frame last
ReadFrames(frs, gf, dim_type) ==
    IF dim_type = DimLocal THEN Window(frs) \o <<gf>> ELSE <<gf>>

\* the dims allocated somewhere in the visible chain
VisibleDims(frs, gf) ==
    UsedDims(gf) \cup UNION {UsedDims(Window(frs)[i]) : i \in DOMAIN Window(frs)}

\* the next dim counting down from the cursor that is not in `used`
Allocate(cursor, used) ==
    CHOOSE d \in (cursor - Cardinality(used))..cursor :
        /\ d \notin used
        /\ \A e \in (d + 1)..cursor : e \in used

\* the first frame of `fs` (in order) satisfying the lookup, or 0
FirstWith(fs, name, dim) ==
    LET hit(i) == IF name # NoName THEN HasName(fs[i], name) ELSE HasDim(fs[i], dim)
    IN  IF \E i \in DOMAIN fs : hit(i)
        THEN CHOOSE i \in DOMAIN fs : hit(i) /\ \A j \in 1..(i - 1) : ~hit(j)
        ELSE 0

\* a request that reuses nothing: it neither looks the name or dim up nor
\* takes the dim it is given, and binds a newly allocated dim every time
RequestFresh(frs, gf, cursor, name, dim, dim_type) ==
    LET fresh_dim == Allocate(cursor, VisibleDims(frs, gf))
        fresh_name == IF name # NoName THEN name ELSE SynName(fresh_dim)
        to_global == dim_type # DimLocal \/ frs = <<>>
    IN  [frames |-> IF to_global THEN frs
                    ELSE [frs EXCEPT ![Len(frs)] = Write(@, fresh_name, fresh_dim)],
         global_frame |-> IF to_global THEN Write(gf, fresh_name, fresh_dim) ELSE gf,
         name |-> fresh_name, dim |-> fresh_dim]

\* request(name_or_request, dim_or_request) -> (name, dim), with the frames
\* after the request.  name = NoName or dim = NoDim when not given.
\* A dim given with a name that is not bound yet is taken as given only
\* while no visible name holds it; otherwise the name gets the next free
\* dim.  (test_named_handlers.py:104-123: to_funsor with {-1: str(i)} and
\* then with {-1: "a"} in one frame leaves str(i) at -1 and puts "a" at -2.)
Request(frs, gf, cursor, name, dim, dim_type) ==
    LET fs == ReadFrames(frs, gf, dim_type)
        k == FirstWith(fs, name, dim)
    IN  IF k # 0
        THEN \* an existing binding is reused
             [frames |-> frs, global_frame |-> gf,
              name |-> IF name # NoName THEN name ELSE ReadDim(fs[k], dim),
              dim |-> IF name # NoName THEN ReadName(fs[k], name) ELSE dim]
        ELSE LET used == VisibleDims(frs, gf)
                 fresh_dim == IF dim # NoDim /\ dim \notin used THEN dim
                              ELSE Allocate(cursor, used)
                 fresh_name == IF name # NoName THEN name ELSE SynName(fresh_dim)
                 to_global == dim_type # DimLocal \/ frs = <<>>
             IN  [frames |-> IF to_global THEN frs
                             ELSE [frs EXCEPT ![Len(frs)] = Write(@, fresh_name, fresh_dim)],
                  global_frame |-> IF to_global THEN Write(gf, fresh_name, fresh_dim) ELSE gf,
                  name |-> fresh_name, dim |-> fresh_dim]

(***************************************************************************)
(* Conversion handlers: NamedMessenger._pyro_to_data / _pyro_to_funsor.    *)
(***************************************************************************)
\* named_messenger.py:48 with the partial-specification test left out
NoPartialCheck(keys, map) == FALSE

\* named_messenger.py:48 and :81: a supplied map that is neither empty nor
\* keyed by exactly the value's names (batch dims) is rejected
PartiallySpecified(keys, map) == Len(map) > 0 /\ Range(keys) # Keys(map)

\* named_messenger.py:52-55: every name becomes a request, in the order of
\* the value's inputs.  st = [frames, global_frame, map]
RECURSIVE ToDataLoop(_, _, _, _)
ToDataLoop(st, batch_names, cursor, dim_type) ==
    IF batch_names = <<>> THEN st
    ELSE LET name == Head(batch_names)
             dim == MapGet(st.map, name, NoDim)
             r == Request(st.frames, st.global_frame, cursor, name, dim, dim_type)
         IN  ToDataLoop([frames |-> r.frames, global_frame |-> r.global_frame,
                         map |-> MapSet(st.map, name, r.dim)],
                        Tail(batch_names), cursor, dim_type)

\* full_shape[:len(full_shape) - event_dim], with Python's slice rules
BatchShape(full_shape, event_dim) ==
    LET k == Len(full_shape) - event_dim
    IN  IF k >= 0 THEN SubSeq(full_shape, 1, k)
        ELSE SubSeq(full_shape, 1, Max(0, Len(full_shape) + k))

\* named_messenger.py:77: the dims of size > 1, from -len(batch_shape) to -1
BatchDims(batch_shape) ==
    LET n == Len(batch_shape)
        all == [i \in 1..n |-> i - n - 1]
    IN  SelectSeq(all, LAMBDA dim : batch_shape[n + dim + 1] > 1)

\* named_messenger.py:85-88
RECURSIVE ToFunsorLoop(_, _, _, _)
ToFunsorLoop(st, batch_dims, cursor, dim_type) ==
    IF batch_dims = <<>> THEN st
    ELSE LET dim == Head(batch_dims)
             name == MapGet(st.map, dim, NoName)
             r == Request(st.frames, st.global_frame, cursor, name, dim, dim_type)
         IN  ToFunsorLoop([frames |-> r.frames, global_frame |-> r.global_frame,
                           map |-> MapSet(st.map, dim, r.name)],
                          Tail(batch_dims), cursor, dim_type)

\* named_messenger.py:165-173: GlobalNamedMessenger._pyro_post_to_funsor /
\* _pyro_post_to_data append (name, global dim) for every input of the value;
\* a name the global frame does not hold raises KeyError and ends the loop
RECURSIVE PostSaveGlobals(_, _, _)
PostSaveGlobals(saved, names, gf) ==
    IF names = <<>> THEN [saved |-> saved, err |-> None]
    ELSE IF ~HasName(gf, Head(names)) THEN [saved |-> saved, err |-> "KeyError"]
    ELSE PostSaveGlobals(Append(saved, <<Head(names), ReadName(gf, Head(names))>>),
                         Tail(names), gf)

(***************************************************************************)
(* The handler instances of the modelled programs.                         *)
(***************************************************************************)
Cleanups == {"C0"}          \* DimStackCleanupMessenger()
Nameds == {"N0"}            \* NamedMessenger()
Globals == {"G1", "G2"}     \* GlobalNamedMessenger()
Locals == {"L1", "L2"}      \* LocalNamedMessenger(history, keep)
Enums == {"E1", "E2", "E3"} \* BaseEnumMessenger(first_available_dim)
Handlers == Cleanups \cup Nameds \cup Globals \cup Locals \cup Enums

\* LocalNamedMessenger.__init__: history and keep
History(h) == 1
Keep(h) == h = "L1"
\* BaseEnumMessenger.__init__: first_available_dim, None for E3
OverrideDim(h) == CASE h = "E1" -> -2 [] h = "E2" -> -3 [] OTHER -> NoDim

\* the handlers with _pyro_to_data / _pyro_to_funsor
IsNamed(h) == h \notin Cleanups

(***************************************************************************)
(* The program state as one record, so that handler methods compose.       *)
(***************************************************************************)
Cur ==
    [ref_count |-> ref_count, saved_dims |-> saved_dims,
     saved_globals |-> saved_globals, saved_frames |-> saved_frames,
     prev_first_dim |-> prev_first_dim, frames |-> frames,
     global_frame |-> global_frame, outermost |-> outermost,
     first_available_dim |-> first_available_dim, pyro_stack |-> pyro_stack,
     first_run |-> first_run]

Set(s) ==
    /\ ref_count' = s.ref_count
    /\ saved_dims' = s.saved_dims
    /\ saved_globals' = s.saved_globals
    /\ saved_frames' = s.saved_frames
    /\ prev_first_dim' = s.prev_first_dim
    /\ frames' = s.frames
    /\ global_frame' = s.global_frame
    /\ outermost' = s.outermost
    /\ first_available_dim' = s.first_available_dim
    /\ pyro_stack' = s.pyro_stack
    /\ first_run' = s.first_run

\* ids of the frames that are still referenced
LiveIds(s) ==
    {s.frames[i].id : i \in DOMAIN s.frames}
    \cup UNION {{s.saved_frames[h][i].id : i \in DOMAIN s.saved_frames[h]} : h \in Handlers}
    \cup {iter_frame}

\* a new StackFrame object is distinct from every frame still referenced
FreshId(s) == CHOOSE id \in 1..(Cardinality(LiveIds(s)) + 1) : id \notin LiveIds(s)

(***************************************************************************)
(* ReentrantMessenger / Messenger: the reference count; the handler is on  *)
(* the handler stack from its first entry to its final exit.               *)
(***************************************************************************)
ReentrantEnter(s, h) ==
    [s EXCEPT !.ref_count[h] = @ + 1,
              !.pyro_stack = IF s.ref_count[h] = 0 THEN Append(@, h) ELSE @]

ReentrantExit(s, h) ==
    [s EXCEPT !.ref_count[h] = @ - 1,
              !.pyro_stack = IF s.ref_count[h] = 1 THEN Front(@) ELSE @]

\* DimStack.set_first_available_dim(dim): sets the cursor (the caller keeps
\* the previous value, s.first_available_dim)
SetFirstAvailableDim(s, dim) == [s EXCEPT !.first_available_dim = dim]

\* DimStack.push / DimStack.pop
Push(s, frame) == [s EXCEPT !.frames = Append(@, frame)]
Pop(s) == [s EXCEPT !.frames = Front(@)]

(***************************************************************************)
(* DimStackCleanupMessenger (named_messenger.py:12-32).                    *)
(***************************************************************************)
\* __enter__ claiming ownership whoever holds it
CleanupEnterAlwaysOwn(s, h) ==
    ReentrantEnter(
        IF s.ref_count[h] = 0
        THEN [s EXCEPT !.outermost = h,
                       !.global_frame = WriteAll(@, s.saved_dims[h]),
                       !.saved_dims[h] = <<>>]
        ELSE s, h)

CleanupEnter(s, h) ==
    ReentrantEnter(
        IF s.ref_count[h] = 0 /\ s.outermost = None
        THEN [s EXCEPT !.outermost = h,
                       !.global_frame = WriteAll(@, s.saved_dims[h]),
                       !.saved_dims[h] = <<>>]
        ELSE s, h)

\* __exit__ cleaning up on the final exit of any handler, owner or not
CleanupExitAnyone(s, h) ==
    ReentrantExit(
        IF s.ref_count[h] = 1
        THEN LET items == Reverse(s.global_frame.name_to_dim)
                 s1 == SetFirstAvailableDim([s EXCEPT !.outermost = None], -1)
             IN  [s1 EXCEPT !.saved_dims[h] = @ \o items,
                            !.global_frame = FreeAll(@, items)]
        ELSE s, h)

CleanupExit(s, h) ==
    ReentrantExit(
        IF s.ref_count[h] = 1 /\ s.outermost = h
        THEN LET items == Reverse(s.global_frame.name_to_dim)
                 s1 == SetFirstAvailableDim([s EXCEPT !.outermost = None], -1)
             IN  [s1 EXCEPT !.saved_dims[h] = @ \o items,
                            !.global_frame = FreeAll(@, items)]
        ELSE s, h)

(***************************************************************************)
(* LocalNamedMessenger (named_messenger.py:93-143).                        *)
(***************************************************************************)
\* __enter__ taking the oldest archived frame instead of the latest
LocalEnterOldest(s, h) ==
    LET reuse == Keep(h) /\ s.saved_frames[h] # <<>>
        frame == IF reuse THEN Head(s.saved_frames[h])
                 ELSE StackFrame(FreshId(s), History(h), Keep(h))
        s1 == [s EXCEPT !.saved_frames[h] = IF reuse THEN Tail(@) ELSE @,
                        !.first_run[h] = IF reuse \/ ~Keep(h) THEN @
                                         ELSE Append(@, frame.id)]
    IN  CleanupEnter(Push(s1, frame), h)

\* __enter__ building frames that see every frame below them
LocalEnterWholeHistory(s, h) ==
    LET reuse == Keep(h) /\ s.saved_frames[h] # <<>>
        frame == IF reuse THEN Last(s.saved_frames[h])
                 ELSE StackFrame(FreshId(s), Len(s.frames), Keep(h))
        s1 == [s EXCEPT !.saved_frames[h] = IF reuse THEN Front(@) ELSE @,
                        !.first_run[h] = IF reuse \/ ~Keep(h) THEN @
                                         ELSE Append(@, frame.id)]
    IN  CleanupEnter(Push(s1, frame), h)

\* __enter__ building frames that see no frame below them
LocalEnterNoHistory(s, h) ==
    LET reuse == Keep(h) /\ s.saved_frames[h] # <<>>
        frame == IF reuse THEN Last(s.saved_frames[h])
                 ELSE StackFrame(FreshId(s), 0, Keep(h))
        s1 == [s EXCEPT !.saved_frames[h] = IF reuse THEN Front(@) ELSE @,
                        !.first_run[h] = IF reuse \/ ~Keep(h) THEN @
                                         ELSE Append(@, frame.id)]
    IN  CleanupEnter(Push(s1, frame), h)

LocalEnter(s, h) ==
    LET reuse == Keep(h) /\ s.saved_frames[h] # <<>>
        frame == IF reuse THEN Last(s.saved_frames[h])
                 ELSE StackFrame(FreshId(s), History(h), Keep(h))
        s1 == [s EXCEPT !.saved_frames[h] = IF reuse THEN Front(@) ELSE @,
                        !.first_run[h] = IF reuse \/ ~Keep(h) THEN @
                                         ELSE Append(@, frame.id)]
    IN  CleanupEnter(Push(s1, frame), h)

\* __exit__ that archives the current frame of a keeping scope but leaves
\* it on the stack
LocalExitArchiveOnly(s, h) ==
    CleanupExit(IF Keep(h)
                THEN [s EXCEPT !.saved_frames[h] = Append(@, Last(s.frames))]
                ELSE Pop(s), h)

LocalExit(s, h) ==
    LET s1 == IF Keep(h)
              THEN [Pop(s) EXCEPT !.saved_frames[h] = Append(@, Last(s.frames))]
              ELSE Pop(s)
    IN  CleanupExit(s1, h)

\* an unwinding that leaves only the innermost step's scope
LocalExitOnce(s, h, n) == IF n = 0 THEN s ELSE LocalExit(s, h)

RECURSIVE LocalExitTimes(_, _, _)
LocalExitTimes(s, h, n) ==
    IF n = 0 THEN s ELSE LocalExitTimes(LocalExit(s, h), h, n - 1)

(***************************************************************************)
(* GlobalNamedMessenger (named_messenger.py:146-173).                      *)
(***************************************************************************)
GlobalEnter(s, h) ==
    CleanupEnter(
        IF s.ref_count[h] = 0
        THEN [s EXCEPT !.global_frame = WriteAll(@, s.saved_globals[h]),
                       !.saved_globals[h] = <<>>]
        ELSE s, h)

\* __exit__ releasing the recorded names on every exit, not only the last
GlobalExitEveryTime(s, h) ==
    CleanupExit([s EXCEPT !.global_frame = FreeAll(@, s.saved_globals[h])], h)

GlobalExit(s, h) ==
    CleanupExit(
        IF s.ref_count[h] = 1
        THEN [s EXCEPT !.global_frame = FreeAll(@, s.saved_globals[h])]
        ELSE s, h)

(***************************************************************************)
(* BaseEnumMessenger (named_messenger.py:176-193).                         *)
(***************************************************************************)
\* __enter__ installing the override on every entry, not only the first
EnumEnterEveryTime(s, h) ==
    CleanupEnter(
        IF OverrideDim(h) # NoDim
        THEN [SetFirstAvailableDim(s, OverrideDim(h))
                  EXCEPT !.prev_first_dim[h] = s.first_available_dim]
        ELSE s, h)

EnumEnter(s, h) ==
    CleanupEnter(
        IF s.ref_count[h] = 0 /\ OverrideDim(h) # NoDim
        THEN [SetFirstAvailableDim(s, OverrideDim(h))
                  EXCEPT !.prev_first_dim[h] = s.first_available_dim]
        ELSE s, h)

EnumExit(s, h) ==
    CleanupExit(
        IF s.ref_count[h] = 1 /\ OverrideDim(h) # NoDim
        THEN SetFirstAvailableDim(s, s.prev_first_dim[h])
        ELSE s, h)

(***************************************************************************)
(* The running program: properly nested with-blocks and iterations.        *)
(***************************************************************************)
WithBlock(h) == [kind |-> "with", h |-> h, n |-> 0]
Iteration(h, n) == [kind |-> "iter", h |-> h, n |-> n]

RECURSIVE Entries(_)
Entries(c) == IF c = <<>> THEN 0 ELSE 1 + Head(c).n + Entries(Tail(c))
Depth == Entries(ctl)

NoMsg ==
    [op |-> "none", h |-> None, keys |-> <<>>, supplied |-> <<>>, map |-> <<>>,
     dim_type |-> None, pairs |-> <<>>, stop |-> FALSE, err |-> None]

Event(op, h) == [op |-> op, h |-> h, rc |-> ref_count[h]]

\* the names whose GLOBAL/VISIBLE resolutions are followed
Tracked == {N("x"), N("y")}
Unresolved == [owner |-> None, dim |-> NoDim]

\* the innermost active handler of a set, or None
Innermost(stack, set) ==
    IF \E i \in DOMAIN stack : stack[i] \in set
    THEN stack[CHOOSE i \in DOMAIN stack :
                   stack[i] \in set /\ \A j \in (i + 1)..Len(stack) : stack[j] \notin set]
    ELSE None

\* a with-block is opened on handler h
OpenBody(h, s) ==
    /\ Set(s)
    /\ ctl' = Append(ctl, WithBlock(h))
    /\ ev' = Event("enter", h)
    /\ msg' = NoMsg
    /\ released' = [released EXCEPT ![h] = IF ref_count[h] = 0 THEN {} ELSE @]
    /\ UNCHANGED <<iter_frame, resolved>>

Open(h, s) == Depth < MaxDepth /\ OpenBody(h, s)

\* the innermost with-block, on handler h, is left: its __exit__ runs, with
\* the exception if there is one (op "exit" or "error")
CloseAs(op, h, s) ==
    /\ ctl # <<>>
    /\ Last(ctl) = WithBlock(h)
    /\ Set(s)
    /\ ctl' = Front(ctl)
    /\ ev' = Event(op, h)
    /\ msg' = NoMsg
    /\ resolved' = [n \in Tracked |->
                      IF resolved[n].owner = h /\ s.ref_count[h] = 0
                      THEN Unresolved ELSE resolved[n]]
    /\ released' = [released EXCEPT ![h] =
                      IF s.ref_count[h] = 0
                      THEN {<<n, ReadName(global_frame, n)>> :
                              n \in {m \in Tracked : /\ resolved[m].owner = h
                                                     /\ HasName(global_frame, m)}}
                      ELSE @]
    /\ UNCHANGED iter_frame

Close(h, s) == CloseAs("exit", h, s)

EnterCleanup(h) == Open(h, CleanupEnter(Cur, h))
ExitCleanup(h) == Close(h, CleanupExit(Cur, h))
EnterLocal(h) == Open(h, LocalEnter(Cur, h))
ExitLocal(h) == Close(h, LocalExit(Cur, h))
EnterGlobal(h) == Open(h, GlobalEnter(Cur, h))
ExitGlobal(h) == Close(h, GlobalExit(Cur, h))
EnterEnum(h) == Open(h, EnumEnter(Cur, h))
ExitEnum(h) == Close(h, EnumExit(Cur, h))

\* the program is at a statement of a body: not between the start of a loop
\* and its first step
InBody == IF ctl = <<>> THEN TRUE ELSE Last(ctl).kind = "with" \/ Last(ctl).n > 0

\* `iter(handler(iterable))`: __call__ stores the iterable and __iter__, a
\* generator function, returns a generator that has not run yet
\* (named_messenger.py:112-118); no state of the dim stack changes
IterStart(h) ==
    /\ Depth < MaxDepth
    /\ ctl' = Append(ctl, Iteration(h, 0))
    /\ ev' = Event("iter", h)
    /\ msg' = NoMsg
    /\ UNCHANGED <<ref_count, saved_dims, saved_globals, saved_frames, prev_first_dim,
                   frames, global_frame, outermost, iter_frame, first_available_dim,
                   pyro_stack, first_run, resolved, released>>

\* the generator is advanced.  The first time it runs from the top: it
\* anchors iter_frame at the current frame (named_messenger.py:120) and
\* takes the first step; every step is stack.enter_context(self), then the
\* value is yielded (122-124)
IterStepBody(h) ==
    /\ ctl # <<>>
    /\ Last(ctl).kind = "iter"
    /\ Last(ctl).h = h
    /\ Set(LocalEnter(Cur, h))
    /\ iter_frame' = IF Last(ctl).n = 0 THEN CurrentFrame(frames, global_frame).id
                     ELSE iter_frame
    /\ ctl' = [ctl EXCEPT ![Len(ctl)].n = @ + 1]
    /\ ev' = Event("step", h)
    /\ msg' = NoMsg
    /\ UNCHANGED <<resolved, released>>

IterStep(h) == Depth < MaxDepth /\ IterStepBody(h)

\* the generator of __iter__ leaves its `with ExitStack()` block, the
\* iterable being exhausted (op "iter_end") or the generator being closed at
\* its yield (op "iter_break"): the ExitStack leaves every step's scope,
\* innermost first.  A loop over an empty iterable runs the generator once,
\* from the top to its end: it anchors iter_frame and takes no step.
IterLeave(op, h) ==
    /\ ctl # <<>>
    /\ Last(ctl).kind = "iter"
    /\ Last(ctl).h = h
    /\ Set(LocalExitTimes(Cur, h, Last(ctl).n))
    /\ iter_frame' = IF Last(ctl).n = 0 /\ op = "iter_end"
                     THEN CurrentFrame(frames, global_frame).id
                     ELSE iter_frame
    /\ ctl' = Front(ctl)
    /\ ev' = Event(op, h)
    /\ msg' = NoMsg
    /\ UNCHANGED <<resolved, released>>

IterEnd(h) == IterLeave("iter_end", h)

(***************************************************************************)
(* Conversion calls, dispatched to the innermost handler that has          *)
(* _pyro_to_data / _pyro_to_funsor.  That handler sets msg["stop"], so no  *)
(* handler below it processes or post-processes the message.               *)
(***************************************************************************)
Processor == Innermost(pyro_stack, {h \in Handlers : IsNamed(h)})
IsGlobalType(dim_type) == dim_type \in {DimGlobal, DimVisible}

\* the first GLOBAL/VISIBLE resolution of a followed name, with the innermost
\* global-binding handler active at that moment as its owner
Follow(pairs, dim_type) ==
    LET owner == Innermost(pyro_stack, Globals)
    IN  [n \in Tracked |->
           IF /\ IsGlobalType(dim_type) /\ owner # None
              /\ resolved[n] = Unresolved /\ HasKey(pairs, n)
           THEN [owner |-> owner, dim |-> MapGet(pairs, n, NoDim)]
           ELSE resolved[n]]

\* what a conversion call does once it is dispatched to handler h
Convert(op, h, keys, supplied, dim_type, st, names, pairs) ==
    LET record == h \in Globals /\ IsGlobalType(dim_type)
        post == IF record
                THEN PostSaveGlobals(saved_globals[h], names, st.global_frame)
                ELSE [saved |-> saved_globals[h], err |-> None]
        base == [NoMsg EXCEPT !.op = op, !.h = h, !.keys = keys,
                              !.supplied = supplied, !.dim_type = dim_type]
    IN  /\ h # None
        /\ record => Len(saved_globals[h]) + Len(keys) <= MaxSaved
        /\ ev' = Event(op, h)
        /\ IF PartiallySpecified(keys, supplied)
           THEN /\ msg' = [base EXCEPT !.map = supplied, !.err = "NotImplementedError"]
                /\ UNCHANGED <<frames, global_frame, saved_globals, resolved>>
           ELSE /\ frames' = st.frames
                /\ global_frame' = st.global_frame
                /\ saved_globals' = [saved_globals EXCEPT ![h] = post.saved]
                /\ msg' = [base EXCEPT !.map = st.map, !.pairs = pairs,
                                       !.stop = TRUE, !.err = post.err]
                /\ resolved' = Follow(pairs, dim_type)
        /\ UNCHANGED <<ref_count, saved_dims, saved_frames, prev_first_dim, outermost,
                       iter_frame, first_available_dim, pyro_stack, ctl, first_run,
                       released>>

\* pyro.to_data(funsor_value, name_to_dim=..., dim_type=...)
ToData(batch_names, name_to_dim, dim_type) ==
    LET st == ToDataLoop([frames |-> frames, global_frame |-> global_frame,
                          map |-> name_to_dim],
                         batch_names, first_available_dim, dim_type)
        pairs == [i \in DOMAIN batch_names |->
                    <<batch_names[i], MapGet(st.map, batch_names[i], NoDim)>>]
    IN  Convert("to_data", Processor, batch_names, name_to_dim, dim_type,
                st, batch_names, pairs)

\* pyro.to_funsor(raw_value, output, dim_to_name=..., dim_type=...)
\* the inputs of the funsor to_funsor returns: its names in order, each once
RECURSIVE InputsOf(_)
InputsOf(pairs) ==
    IF pairs = <<>> THEN <<>>
    ELSE LET rest == InputsOf(Front(pairs))
         IN  IF Last(pairs)[1] \in Range(rest) THEN rest
             ELSE Append(rest, Last(pairs)[1])

ToFunsor(full_shape, event_dim, dim_to_name, dim_type) ==
    LET batch_dims == BatchDims(BatchShape(full_shape, event_dim))
        st == ToFunsorLoop([frames |-> frames, global_frame |-> global_frame,
                            map |-> dim_to_name],
                           batch_dims, first_available_dim, dim_type)
        pairs == [i \in DOMAIN batch_dims |->
                    <<MapGet(st.map, batch_dims[i], NoName), batch_dims[i]>>]
        names == InputsOf(pairs)
    IN  Convert("to_funsor", Processor, batch_dims, dim_to_name, dim_type,
                st, names, pairs)

(***************************************************************************)
(* Initial state: the state after the modules are imported and the         *)
(* handlers constructed.                                                   *)
(***************************************************************************)
Init ==
    /\ ref_count = [h \in Handlers |-> 0]
    /\ saved_dims = [h \in Handlers |-> <<>>]
    /\ saved_globals = [h \in Handlers |-> <<>>]
    /\ saved_frames = [h \in Handlers |-> <<>>]
    /\ prev_first_dim = [h \in Handlers |-> NoDim]
    /\ frames = <<>>
    \* no frame lies below the global frame, so its history is never read
    /\ global_frame = StackFrame(GlobalId, 0, FALSE)
    /\ outermost = None
    /\ iter_frame = NoFrame
    /\ first_available_dim = -1
    /\ pyro_stack = <<>>
    /\ ctl = <<>>
    /\ msg = NoMsg
    /\ ev = [op |-> "init", h |-> None, rc |-> 0]
    /\ first_run = [h \in Handlers |-> <<>>]
    /\ resolved = [n \in Tracked |-> Unresolved]
    /\ released = [h \in Handlers |-> {}]

(***************************************************************************)
(* Spec: programs over one handler of every class, with re-entrant         *)
(* with-blocks and conversions that bind a global name.                    *)
(***************************************************************************)
\* the conversion step leaves no dim below -MaxDim in the global frame: a
\* write that overwrites one of the two dictionaries only leaves a dim behind
\* that no free removes, and requests then allocate deeper and deeper dims
WithinMaxDim == \A p \in global_frame'.dim_to_name : p[1] >= -MaxDim

Next ==
    \/ \E h \in {"C0"} : EnterCleanup(h)
    \/ \E h \in {"C0"} : ExitCleanup(h)
    \/ \E h \in {"L2"} : EnterLocal(h)
    \/ \E h \in {"L2"} : ExitLocal(h)
    \/ \E h \in {"G1"} : EnterGlobal(h)
    \/ \E h \in {"G1"} : ExitGlobal(h)
    \/ \E h \in {"E1"} : EnterEnum(h)
    \/ \E h \in {"E1"} : ExitEnum(h)
    \/ ToData(<<N("x")>>, <<>>, DimGlobal) /\ WithinMaxDim

Spec == Init /\ [][Next]_vars

(***************************************************************************)
(* Claims.                                                                 *)
(***************************************************************************)
\* the step just taken entered a handler that was already active, or left
\* it without making its final exit
ReentrantStep ==
    \/ ev'.op = "enter" /\ ev'.rc >= 1
    \/ ev'.op = "exit" /\ ev'.rc >= 2

\* C1 (as stated): for every handler type, entering an already active
\* handler and the matching non-final exit leave the frame stack, the global
\* frame, outermost and first_available_dim exactly as they were.
C1_EveryTypeTransparent ==
    [][ReentrantStep =>
          UNCHANGED <<frames, global_frame, outermost, first_available_dim>>]_vars

\* C1 (amended): that holds for cleanup, global-binding and dim-window
\* handlers; a local scope handler pushes one frame on every entry and pops
\* one on every exit whatever its ref_count, and its re-entrant entries and
\* non-final exits leave the global frame, outermost and first_available_dim
\* as they were.
C1_ReentrantTransparent ==
    [][ReentrantStep =>
          /\ UNCHANGED <<global_frame, outermost, first_available_dim>>
          /\ ev'.h \notin Locals => UNCHANGED frames
          /\ ev'.h \in Locals /\ ev'.op = "enter" =>
                 Len(frames') = Len(frames) + 1 /\ Front(frames') = frames
          /\ ev'.h \in Locals /\ ev'.op = "exit" =>
                 frames # <<>> /\ frames' = Front(frames)]_vars

\* a global-binding handler that holds a recorded global name was re-entered
C1_Witness ==
    /\ ev.op = "enter" /\ ev.rc >= 1 /\ ev.h \in Globals
    /\ saved_globals[ev.h] # <<>>
    /\ global_frame.name_to_dim # <<>>

\* C6: outermost is None exactly when no handler is active; otherwise it is
\* the first handler entered, which has ref_count >= 1; entering or exiting
\* any other handler never changes outermost.
C6_SingleOwner ==
    /\ [](/\ outermost = None <=> \A h \in Handlers : ref_count[h] = 0
          /\ outermost # None =>
                 ref_count[outermost] >= 1 /\ outermost = pyro_stack[1])
    /\ [][ev'.op \in {"enter", "exit"} /\ outermost # None /\ ev'.h # outermost =>
              outermost' = outermost]_vars

\* another handler was left inside the owner's scope and the owner kept
\* ownership
C6_Witness ==
    /\ ev.op = "exit" /\ outermost # None /\ ev.h # outermost
    /\ Len(pyro_stack) >= 2 /\ ref_count[ev.h] = 0

(***************************************************************************)
(* SpecCleanup: a global-binding handler and a dim-window handler, either  *)
(* of which may own the cleanup; one name bound GLOBAL and one bound LOCAL *)
(* (with no scope open, in the global frame).                              *)
(***************************************************************************)
NextCleanup ==
    \/ \E h \in {"G1"} : EnterGlobal(h)
    \/ \E h \in {"G1"} : ExitGlobal(h)
    \/ \E h \in {"E1"} : EnterEnum(h)
    \/ \E h \in {"E1"} : ExitEnum(h)
    \/ ToData(<<N("x")>>, <<>>, DimGlobal) /\ WithinMaxDim
    \/ ToData(<<N("y")>>, <<>>, DimLocal) /\ WithinMaxDim

SpecCleanup == Init /\ [][NextCleanup]_vars

Pairs(f) == Range(f.name_to_dim)
IsEmpty(f) == f.name_to_dim = <<>> /\ f.dim_to_name = {}

\* the step is the final exit of the cleanup owner
OwnerExit == ev'.op = "exit" /\ ev'.rc = 1 /\ outermost = ev'.h
\* the step is an exit of a handler that is not the owner
OtherExit == ev'.op = "exit" /\ outermost # ev'.h
\* the step is the entry by which a handler becomes the owner
Owning == ev'.op = "enter" /\ outermost = None

NextWindow ==
    \/ \E h \in Enums : EnterEnum(h)
    \/ \E h \in Enums : ExitEnum(h)
    \/ ToData(<<N("a")>>, <<>>, DimLocal)

SpecWindow == Init /\ [][NextWindow]_vars

HasOverride(h) == h \in Enums /\ OverrideDim(h) # NoDim

\* the override of the innermost active window that has one; the initial
\* value of the cursor when there is none
EnclosingDim(stack) ==
    LET w == Innermost(stack, {h \in Enums : HasOverride(h)})
    IN  IF w = None THEN -1 ELSE OverrideDim(w)

\* C7: while a window with an override is the innermost active one the
\* cursor equals its override; after its final exit the cursor is the
\* enclosing window's override, or the initial value when there is none; a
\* window without an override never changes the cursor.
C7_WindowCursor ==
    /\ [](first_available_dim = EnclosingDim(pyro_stack))
    /\ [][/\ ev'.op = "exit" /\ ev'.rc = 1 /\ HasOverride(ev'.h) =>
               first_available_dim' = EnclosingDim(Front(pyro_stack))
          /\ ev'.op \in {"enter", "exit"} /\ ev'.h \in Enums /\ ~HasOverride(ev'.h) =>
               first_available_dim' = first_available_dim]_vars

\* the inner window E2 made its final exit inside E1 and the cursor is back
\* at E1's override
C7_Witness ==
    /\ ev.op = "exit" /\ ev.rc = 1 /\ ev.h = "E2"
    /\ Innermost(pyro_stack, Enums) = "E1"
    /\ first_available_dim = -2

(***************************************************************************)
(* SpecGlobal: an outer global-binding handler G2 with the global-binding  *)
(* handler G1 nested inside it, each re-entered any number of times, and   *)
(* conversions of the names x and y (GLOBAL or VISIBLE).                   *)
(***************************************************************************)
NextGlobal ==
    \/ Depth = 0 /\ EnterGlobal("G2")
    \/ Depth > 0 /\ Depth < MaxNest /\ EnterGlobal("G1")
    \/ \E h \in {"G1", "G2"} : ExitGlobal(h)
    \/ \E n \in {"x", "y"}, t \in {DimGlobal, DimVisible} :
           ToData(<<N(n)>>, <<>>, t) /\ WithinMaxDim

SpecGlobal == Init /\ [][NextGlobal]_vars

\* every frame the program holds: active, archived, global
AllFrames ==
    Range(frames) \cup UNION {Range(saved_frames[h]) : h \in Handlers}
    \cup {global_frame}

C3_StableGlobalDim ==
    (msg.stop /\ IsGlobalType(msg.dim_type))
        => \A i \in DOMAIN msg.pairs :
               LET n == msg.pairs[i][1]
               IN  (n \in Tracked /\ resolved[n] # Unresolved)
                       => msg.pairs[i][2] = resolved[n].dim

(***************************************************************************)
(* SpecRelease: a cleanup handler C0 around a global-binding handler G1    *)
(* around a plain NamedMessenger N0, and GLOBAL conversions of x.          *)
(***************************************************************************)
NextRelease ==
    \/ \E h \in {"C0", "N0"} : EnterCleanup(h)
    \/ \E h \in {"C0", "N0"} : ExitCleanup(h)
    \/ EnterGlobal("G1")
    \/ ExitGlobal("G1")
    \/ \E t \in {DimGlobal, DimVisible} : ToData(<<N("x")>>, <<>>, t)

SpecRelease == Init /\ [][NextRelease]_vars

\* C4: the final exit of a global-binding handler leaves no name of its activation bound:
\* no name first resolved (GLOBAL or VISIBLE) during its activation
\* is bound in the global frame afterwards; and its next first entry binds
\* every name it released to the dim the name had at the exit.
C4_ReleaseRestore ==
    [][/\ (ev'.op = "exit" /\ ev'.h \in Globals /\ ev'.rc = 1)
           => \A n \in Tracked :
                  resolved[n].owner = ev'.h => ~HasName(global_frame', n)
       /\ (ev'.op = "enter" /\ ev'.h \in Globals /\ ev'.rc = 0)
           => released[ev'.h] \subseteq Pairs(global_frame')]_vars
(***************************************************************************)
(* SpecKeep: the keeping local scope L1, as re-entrant with-blocks and as  *)
(* an iteration, run again and again, with LOCAL conversions of a and b.   *)
(***************************************************************************)
NextKeep ==
    \/ InBody /\ EnterLocal("L1")
    \/ ExitLocal("L1")
    \/ InBody /\ IterStart("L1")
    \/ IterStep("L1")
    \/ IterEnd("L1")
    \/ \E n \in {"a", "b"} : InBody /\ ToData(<<N(n)>>, <<>>, DimLocal)

SpecKeep == Init /\ [][NextKeep]_vars

\* C8: the k-th nested entry of a keeping local scope (with-block or
\* iteration step) pushes the archived frame of the k-th entry of its first
\* run, with the bindings the frame had when it was popped; an entry deeper
\* than any earlier one pushes a new empty frame; an exit archives the popped
\* frame.
C8_KeepReplay ==
    [][/\ (ev'.op \in {"enter", "step"} /\ Keep(ev'.h))
           => LET h == ev'.h
                  k == ref_count'[h]
              IN  IF k <= Len(first_run[h])
                  THEN /\ saved_frames[h] # <<>>
                       /\ Last(frames') = Last(saved_frames[h])
                       /\ Last(frames').id = first_run[h][k]
                  ELSE /\ IsEmpty(Last(frames'))
                       /\ Last(frames').id \notin Range(first_run[h])
       /\ (ev'.op = "exit" /\ Keep(ev'.h))
           => Last(saved_frames'[ev'.h]) = Last(frames)]_vars

\* a second run of L1 has just made its second nested entry and got back the
\* second frame of the first run, bindings included
C8_Witness ==
    /\ ev.op \in {"enter", "step"} /\ ev.h = "L1" /\ ev.rc = 1
    /\ Len(first_run["L1"]) >= 2
    /\ Last(frames).id = first_run["L1"][2]
    /\ Last(frames).name_to_dim # <<>>
    /\ frames[1].id = first_run["L1"][1]
    /\ frames[1].name_to_dim # Last(frames).name_to_dim
(***************************************************************************)
(* SpecConvert: conversions with empty, complete and partial maps, inside  *)
(* a NamedMessenger N0 and a local scope L2 nested in it.                  *)
(***************************************************************************)
\* funsor_value.inputs of the to_data calls, and the name_to_dim they pass
DataInputs == {<<N("a")>>, <<N("a"), N("b")>>}
DataMaps == {<<>>, <<<<N("a"), -1>>>>, <<<<N("a"), -2>>, <<N("b"), -1>>>>}
\* raw_value.shape and len(output.shape) of the to_funsor calls, and the
\* dim_to_name they pass
Shapes == {<<2>>, <<2, 2>>}
EventDims == {0, 1}
FunsorMaps == {<<>>, <<<<-1, N("a")>>>>, <<<<-2, N("b")>>, <<-1, N("a")>>>>}

NextConvert ==
    \/ Depth = 0 /\ EnterCleanup("N0")
    \/ ExitCleanup("N0")
    \/ Depth > 0 /\ Depth < MaxNest /\ EnterLocal("L2")
    \/ ExitLocal("L2")
    \/ \E keys \in DataInputs, m \in DataMaps : ToData(keys, m, DimLocal)
    \/ \E shape \in Shapes, e \in EventDims, m \in FunsorMaps :
           ToFunsor(shape, e, m, DimLocal)

SpecConvert == Init /\ [][NextConvert]_vars

\* the conversion just dispatched passed a partial map
PartialCall ==
    /\ ev'.op \in {"to_data", "to_funsor"}
    /\ Len(msg'.supplied) > 0
    /\ Range(msg'.keys) # Keys(msg'.supplied)

\* C9: a to_data (to_funsor) call whose supplied map is non-empty and whose
\* keys differ from the value's names (batch dims of size > 1) raises
\* NotImplementedError before any request: frames, global frame, cursor and
\* the supplied map are unchanged and the message is not marked as handled.
C9_PartialRejected ==
    [][PartialCall =>
           /\ msg'.err = "NotImplementedError"
           /\ ~msg'.stop
           /\ msg'.map = msg'.supplied
           /\ UNCHANGED <<frames, global_frame, first_available_dim,
                          saved_frames, saved_globals, saved_dims>>]_vars

\* a to_funsor call with a partial dim_to_name was rejected while the current
\* frame and the global frame held bindings
C9_Witness ==
    /\ msg.op = "to_funsor" /\ msg.err = "NotImplementedError"
    /\ Len(msg.keys) = 2 /\ Len(msg.supplied) = 1
    /\ frames # <<>> /\ Last(frames).name_to_dim # <<>>
    /\ global_frame.name_to_dim # <<>>
(***************************************************************************)
(* SpecIteration: test_iteration (test_named_handlers.py:26-45).  The      *)
(* local scope L2 (history 1, keep false) is iterated, alone or inside the *)
(* NamedMessenger N0; every step converts a value over a name of its own   *)
(* (to_data), then a value over "a" (to_data), and may convert the two     *)
(* results back (to_funsor).                                               *)
(***************************************************************************)
\* the names a step may give its own value: str(i), or another fresh one
StepNames(k) == {<<"i", k>>, <<"j", k>>}
IsStepName(n) == n[1] \in {"i", "j"}
\* the step now running, counted from 0
StepNo == Last(ctl).n - 1
InStep == ctl # <<>> /\ Last(ctl).kind = "iter" /\ Last(ctl).n > 0
\* the shape of the tensor to_data returned for a value over one name of
\* size 2 placed at `dim`
ShapeOf(dim) == [i \in 1..(-dim) |-> IF i = 1 THEN 2 ELSE 1]
\* the conversions of the running step made so far
OwnDone == msg.op = "to_data" /\ IsStepName(msg.keys[1])
SharedDone == msg.op = "to_data" /\ msg.keys = <<N("a")>>
BackOwnDone == msg.op = "to_funsor" /\ msg.keys # <<-2>>
BackSharedDone == msg.op = "to_funsor" /\ msg.keys = <<-2>>
StepDone == SharedDone \/ BackOwnDone \/ BackSharedDone
\* the dim the step's own name was given
OwnDim == CHOOSE d \in {Last(frames).name_to_dim[i][2] : i \in
                          {j \in DOMAIN Last(frames).name_to_dim :
                               IsStepName(Last(frames).name_to_dim[j][1])}} : TRUE

NextIteration ==
    \/ Depth = 0 /\ EnterCleanup("N0")
    \/ ExitCleanup("N0")
    \/ ev.op \in {"init", "enter", "iter_end"} /\ IterStart("L2")
    \/ /\ ev.op = "iter" \/ (InStep /\ StepDone)
       /\ Last(ctl).n < MaxSteps
       /\ IterStepBody("L2")
    \/ (ev.op = "iter" \/ (InStep /\ StepDone)) /\ IterEnd("L2")
    \/ /\ ev.op = "step"
       /\ \E n \in StepNames(StepNo) : ToData(<<n>>, <<>>, DimLocal)
    \/ InStep /\ OwnDone /\ ToData(<<N("a")>>, <<>>, DimLocal)
    \/ InStep /\ SharedDone /\ ToFunsor(ShapeOf(OwnDim), 0, <<>>, DimLocal)
    \/ /\ InStep /\ (SharedDone \/ BackOwnDone)
       /\ ToFunsor(ShapeOf(-2), 0, <<>>, DimLocal)

SpecIteration == Init /\ [][NextIteration]_vars

\* C10: in an iteration of a local scope with history 1 and keep false whose
\* steps resolve a name of their own and then "a", the step's own name gets
\* dim -1 on even steps and -3 on odd steps and "a" gets -2 on every step;
\* to_funsor of the resulting dims returns the same names.
C10_Alternation ==
    (InStep /\ msg.stop)
        => \A i \in DOMAIN msg.pairs :
               LET n == msg.pairs[i][1]
                   d == msg.pairs[i][2]
               IN  /\ msg.op = "to_data" /\ IsStepName(n)
                       => d = IF StepNo % 2 = 0 THEN -1 ELSE -3
                   /\ msg.op = "to_data" /\ n = N("a") => d = -2
                   /\ msg.op = "to_funsor" /\ d = -2 => n = N("a")
                   /\ msg.op = "to_funsor" /\ d # -2
                       => /\ n \in StepNames(StepNo)
                          /\ ReadName(Last(frames), n) = d

\* the fifth step (an even one) follows four others: its own name is at -1
\* again, "a" at -2, and -2 has just been converted back to "a"
C10_Witness ==
    /\ InStep /\ StepNo = 4 /\ BackSharedDone
    /\ msg.pairs = <<<<N("a"), -2>>>>
    /\ Len(frames) = 5
    /\ \E n \in StepNames(4) : ReadName(Last(frames), n) = -1
    /\ \E n \in StepNames(3) : ReadName(frames[4], n) = -3
    /\ ~HasName(frames[4], N("a"))
(***************************************************************************)
(* SpecNesting: test_nesting (test_named_handlers.py:48-74).  Local scopes *)
(* L2 (history 1, keep false) nested in one another, alone or inside the   *)
(* NamedMessenger N0; every scope resolves one name of its own before a    *)
(* scope is opened inside it.                                              *)
(***************************************************************************)
\* the names a scope at nesting depth d may resolve: str(d), or another
LevelNames(d) == {<<"n", d>>, <<"m", d>>}
\* the innermost scope has resolved its name
LevelBound == frames # <<>> /\ Last(frames).name_to_dim # <<>>

NextNesting ==
    \/ Depth = 0 /\ EnterCleanup("N0")
    \/ ExitCleanup("N0")
    \/ /\ frames = <<>> \/ LevelBound
       /\ Len(frames) < MaxLevels
       /\ OpenBody("L2", LocalEnter(Cur, "L2"))
    \/ ExitLocal("L2")
    \/ /\ frames # <<>> /\ ~LevelBound
       /\ \E n \in LevelNames(Len(frames)) : ToData(<<n>>, <<>>, DimLocal)

SpecNesting == Init /\ [][NextNesting]_vars

\* C11: in nested local scopes with history 1 and keep false, each resolving
\* one name new at its depth, the name of depth d is at dim -1 for odd d and
\* at dim -2 for even d.
C11_NestingAlternation ==
    \A d \in DOMAIN frames :
        \A i \in DOMAIN frames[d].name_to_dim :
            frames[d].name_to_dim[i][2] = IF d % 2 = 1 THEN -1 ELSE -2

\* four scopes are nested and each has resolved its name: -1, -2, -1, -2
C11_Witness ==
    /\ Len(frames) = 4
    /\ \A d \in 1..4 : \E n \in LevelNames(d) :
           frames[d].name_to_dim = <<<<n, IF d % 2 = 1 THEN -1 ELSE -2>>>>
(***************************************************************************)
(* SpecStaggered: test_staggered (test_named_handlers.py:77-89), with the  *)
(* choice of the steps that convert left open.  The local scope L2         *)
(* (history 1, keep false) is iterated, alone or inside the NamedMessenger *)
(* N0; a step may convert values over "a" and over "b" (to_data) and       *)
(* convert the result back (to_funsor).                                    *)
(***************************************************************************)
NextStaggered ==
    \/ Depth = 0 /\ EnterCleanup("N0")
    \/ ExitCleanup("N0")
    \/ ev.op \in {"init", "enter", "iter_end"} /\ IterStart("L2")
    \/ /\ ctl # <<>> /\ Last(ctl).kind = "iter" /\ Last(ctl).n < MaxSteps
       /\ IterStepBody("L2")
    \/ IterEnd("L2")
    \/ InStep /\ \E n \in {"a", "b"} : ToData(<<N(n)>>, <<>>, DimLocal)
    \/ /\ InStep /\ msg.op = "to_data"
       /\ ToFunsor(ShapeOf(msg.pairs[1][2]), 0, <<>>, DimLocal)

SpecStaggered == Init /\ [][NextStaggered]_vars

\* the frames a LOCAL request of a scope of handler h may reuse: the
\* requesting frame and the History(h) frames directly below it, then the
\* global frame
ReuseFrames(h) ==
    LET lo == Max(1, Len(frames) - History(h))
    IN  [i \in 1..(Len(frames) - lo + 1) |-> frames[Len(frames) + 1 - i]]
        \o <<global_frame>>
ReuseDims(h) == UNION {UsedDims(ReuseFrames(h)[i]) : i \in DOMAIN ReuseFrames(h)}

\* C12: a LOCAL to_data of a name inside an iteration step reuses a binding
\* of the name only from the requesting frame, the `history` frames directly
\* below it or the global frame; otherwise, however recently the name was
\* bound further down, it binds the name in the requesting frame to the
\* first dim from the cursor that is free in those frames (-1 when -1 is
\* free there).  A to_funsor of the resulting dim returns the name.
C12_WindowReuse ==
    [][/\ (ev'.op = "to_data" /\ InStep /\ msg'.stop)
           => LET n == msg'.keys[1]
                  d == msg'.pairs[1][2]
                  fs == ReuseFrames("L2")
                  used == ReuseDims("L2")
              IN  IF \E i \in DOMAIN fs : HasName(fs[i], n)
                  THEN /\ d = ReadName(fs[FirstWith(fs, n, NoDim)], n)
                       /\ frames' = frames
                  ELSE /\ d \notin used
                       /\ d <= first_available_dim
                       /\ \A e \in (d + 1)..first_available_dim : e \in used
                       /\ ReadName(Last(frames'), n) = d
                       /\ Front(frames') = Front(frames)
       /\ (ev'.op = "to_funsor" /\ InStep /\ msg'.stop)
           => msg'.pairs = msg.pairs]_vars

\* test_staggered: "a" was bound in the frame of step 0 and is resolved next
\* in step 4: it gets -1 again, in the frame of step 4
C12_Witness ==
    /\ InStep /\ StepNo = 4 /\ Len(frames) = 5
    /\ msg.op = "to_data" /\ msg.pairs = <<<<N("a"), -1>>>>
    /\ frames[1].name_to_dim = <<<<N("a"), -1>>>>
    /\ \A i \in 2..4 : frames[i].name_to_dim = <<>>
    /\ frames[5].name_to_dim = <<<<N("a"), -1>>>>
(***************************************************************************)
(* SpecRoundTrip: the keeping local scope L1, re-entered inside itself,    *)
(* with LOCAL conversions of values over a and b, conversions of shapes,   *)
(* the conversion back of what the last conversion returned, and the       *)
(* repetition of the last conversion with the map it produced.             *)
(***************************************************************************)
\* the dims / names of the (name, dim) pairs a conversion resolved
PairDims(pairs) == {pairs[i][2] : i \in DOMAIN pairs}
PairNames(pairs) == {pairs[i][1] : i \in DOMAIN pairs}
MinOf(S) == CHOOSE d \in S : \A e \in S : d <= e
\* the shape of the tensor to_data returns for a value whose names, all of
\* size 2, are placed at `dims`
ShapeFor(dims) ==
    IF dims = {} THEN <<>>
    ELSE LET n == -MinOf(dims)
         IN  [i \in 1..n |-> IF (i - n - 1) \in dims THEN 2 ELSE 1]
LastToData == msg.op = "to_data" /\ msg.stop
LastToFunsor == msg.op = "to_funsor" /\ msg.stop

NextRoundTrip ==
    \/ Depth < MaxNest /\ EnterLocal("L1")
    \/ ExitLocal("L1")
    \/ \E keys \in {<<N("a")>>, <<N("b")>>} :
           ToData(keys, <<>>, DimLocal)
    \/ \E shape \in {<<2>>} : ToFunsor(shape, 0, <<>>, DimLocal)
    \/ LastToData /\ ToFunsor(ShapeFor(PairDims(msg.pairs)), 0, <<>>, msg.dim_type)
    \/ LastToFunsor /\ ToData(InputsOf(msg.pairs), <<>>, msg.dim_type)
    \/ LastToData /\ ToData(msg.keys, msg.map, msg.dim_type)
    \/ LastToFunsor /\ ToFunsor(ShapeFor(Range(msg.keys)), 0, msg.map, msg.dim_type)

SpecRoundTrip == Init /\ [][NextRoundTrip]_vars

\* two conversions resolved the same (name, dim) pairs
PairIn(p, pairs) == \E j \in DOMAIN pairs : pairs[j][1] = p[1] /\ pairs[j][2] = p[2]
SamePairs(ps, qs) ==
    /\ \A i \in DOMAIN ps : PairIn(ps[i], qs)
    /\ \A i \in DOMAIN qs : PairIn(qs[i], ps)

\* C13: a to_funsor with an empty map, made in the same frame right after a
\* to_data with an empty map and over exactly the dims that to_data resolved,
\* resolves every dim back to its name; and a to_data over the names a
\* to_funsor has just resolved returns the same dims.  (A step that leaves ev
\* unchanged repeats the previous call and is not a round trip.)
C13_RoundTrip ==
    [][/\ ( /\ LastToData /\ msg.supplied = <<>>
            /\ ev'.op = "to_funsor" /\ msg'.supplied = <<>>
            /\ msg'.dim_type = msg.dim_type
            /\ Range(msg'.keys) = PairDims(msg.pairs) )
           => SamePairs(msg.pairs, msg'.pairs)
       /\ ( /\ LastToFunsor /\ msg.supplied = <<>>
            /\ ev'.op = "to_data" /\ msg'.supplied = <<>>
            /\ msg'.dim_type = msg.dim_type
            /\ Range(msg'.keys) = PairNames(msg.pairs) )
           => SamePairs(msg.pairs, msg'.pairs)]_ev

\* C14: a conversion repeated in the same scope with the complete map the
\* previous call of the same kind produced returns that map and leaves the
\* bindings of every frame, the global frame included, unchanged.
C14_Idempotent ==
    [][( /\ msg.stop /\ msg.map # <<>>
         /\ msg'.op = msg.op /\ msg'.keys = msg.keys
         /\ msg'.dim_type = msg.dim_type
         /\ msg'.supplied = msg.map )
        => /\ msg'.stop
           /\ msg'.map = msg.map
           /\ frames' = frames
           /\ global_frame' = global_frame]_<<msg, frames, global_frame>>

\* a to_funsor has been repeated, inside a nested scope whose enclosing frame
\* holds a binding, with the map the call before it produced
C14_Witness ==
    /\ LastToFunsor
    /\ msg.supplied # <<>>
    /\ msg.supplied = msg.map
    /\ Len(frames) = 2
    /\ frames[1].name_to_dim # <<>>

\* the frames visible from the current frame: the current frame and the
\* `history` frames below it, innermost first
VisibleChain == Window(frames)
\* the (dim, name) bindings of the visible chain, the global frame included
ChainBindings ==
    global_frame.dim_to_name
        \cup UNION {VisibleChain[i].dim_to_name : i \in DOMAIN VisibleChain}

\* C16: across the current frame, the `history` frames visible below it and
\* the global frame, no dim is bound to two different names.
C16_UniqueVisibleDims ==
    \A p \in ChainBindings : \A q \in ChainBindings : p[1] = q[1] => p[2] = q[2]

\* C17: every name is bound in at most one of the frames visible from the
\* current frame (the global frame apart).
C17_OneFramePerName ==
    \A i \in DOMAIN VisibleChain : \A j \in DOMAIN VisibleChain :
        \A p \in VisibleChain[i].dim_to_name :
            HasName(VisibleChain[j], p[2]) => i = j

(***************************************************************************)
(* SpecUnwind: with-blocks on the local scope L2 and on the dim-window     *)
(* handlers E1 and E2, and iterations of L2, left normally, by an error    *)
(* raised in the body, or by breaking out of the loop.  __exit__ takes     *)
(* *args and does not look at them (named_messenger.py:138-143, 190-193),  *)
(* and the `for` statement drops the generator when it is left, which      *)
(* closes it at its yield inside `with ExitStack()` (118-124).             *)
(***************************************************************************)
\* an error raised in the body of the innermost with-block leaves it
ErrorExitLocal(h) == CloseAs("error", h, LocalExit(Cur, h))
ErrorExitEnum(h) == CloseAs("error", h, EnumExit(Cur, h))
\* the loop is left by break, or by an error raised in a step's body
IterBreak(h) == Last(ctl).n > 0 /\ IterLeave("iter_break", h)

NextUnwind ==
    \/ InBody /\ EnterLocal("L2")
    \/ ExitLocal("L2")
    \/ ErrorExitLocal("L2")
    \/ \E h \in {"E1", "E2"} : InBody /\ EnterEnum(h)
    \/ \E h \in {"E1", "E2"} : ExitEnum(h)
    \/ \E h \in {"E1", "E2"} : ErrorExitEnum(h)
    \/ InBody /\ IterStart("L2")
    \/ IterStep("L2")
    \/ ctl # <<>> /\ IterEnd("L2")
    \/ ctl # <<>> /\ IterBreak("L2")

SpecUnwind == Init /\ [][NextUnwind]_vars

\* the number of frames the open scopes have pushed, and the cursor their
\* overrides leave in force
RECURSIVE FramesOf(_)
FramesOf(c) ==
    IF c = <<>> THEN 0
    ELSE FramesOf(Front(c))
         + (IF Last(c).kind = "iter" THEN Last(c).n
            ELSE IF Last(c).h \in Locals THEN 1 ELSE 0)
RECURSIVE CursorOf(_)
CursorOf(c) ==
    IF c = <<>> THEN -1
    ELSE LET e == Last(c)
             first == \A i \in 1..(Len(c) - 1) : c[i].h # e.h
         IN  IF e.kind = "with" /\ e.h \in Enums /\ OverrideDim(e.h) # NoDim /\ first
             THEN OverrideDim(e.h)
             ELSE CursorOf(Front(c))

\* C15: whenever a scope's body is left (normally, by an error, or by
\* breaking out of an iteration), the frames that scope pushed are popped
\* and its cursor override is released in the same step: the stack is the
\* one of the scopes still open, with the frames below unchanged, and the
\* cursor is the one the enclosing scopes set.
C15_ExitUnwinds ==
    [][Len(ctl') < Len(ctl)
        => /\ Len(frames') = FramesOf(ctl')
           /\ frames' = SubSeq(frames, 1, Len(frames'))
           /\ first_available_dim' = CursorOf(ctl')]_vars

\* an iteration under a cursor override has been broken out of in its
\* first step: the step's frame is gone and the override is still in force
C15_Witness ==
    /\ ev.op = "iter_break"
    /\ ctl = <<WithBlock("E1")>>
    /\ frames = <<>>
    /\ first_available_dim = -2

(***************************************************************************)
(* SpecNestedIter: iterations of the local scope L2, possibly inside a     *)
(* with-block of L2 and inside the steps of another iteration.             *)
(***************************************************************************)
NextNestedIter ==
    \/ InBody /\ EnterLocal("L2")
    \/ ExitLocal("L2")
    \/ InBody /\ IterStart("L2")
    \/ /\ ctl # <<>>
       /\ Len(frames) < MaxLevels
       /\ Last(ctl).n < MaxSteps
       /\ IterStepBody("L2")
    \/ ctl # <<>> /\ IterEnd("L2")

SpecNestedIter == Init /\ [][NextNestedIter]_vars

\* the frame that was current when the k-th open scope, an iteration, started:
\* the top of the frames pushed by the scopes opened before it
Anchor(k) ==
    LET below == FramesOf(SubSeq(ctl, 1, k - 1))
    IN  IF below = 0 THEN global_frame.id ELSE frames[below].id

\* C18: while an iteration is in progress (it has taken a step and has not
\* finished), whether the innermost one or an outer one with an iteration
\* nested in one of its steps started or already finished, iter_frame is the
\* frame that was current when it started.
C18_IterFrameAnchored ==
    \A k \in DOMAIN ctl :
        (ctl[k].kind = "iter" /\ ctl[k].n > 0) => iter_frame = Anchor(k)

(***************************************************************************)
(* SpecBalance: with-blocks and iterations of the local scopes L1 (keep)   *)
(* and L2, properly nested.                                                *)
(***************************************************************************)
NextBalance ==
    \/ \E h \in Locals : InBody /\ EnterLocal(h)
    \/ \E h \in Locals : ExitLocal(h)
    \/ \E h \in Locals : InBody /\ IterStart(h)
    \/ \E h \in Locals : ctl # <<>> /\ Last(ctl).n < MaxNest /\ IterStep(h)
    \/ \E h \in Locals : ctl # <<>> /\ IterEnd(h)

SpecBalance == Init /\ [][NextBalance]_vars

\* the frames of a stack as objects, whatever they bind
Ids(frs) == [i \in DOMAIN frs |-> frs[i].id]

\* C19: every entry of a local scope (with-block or iteration step) pushes
\* exactly one frame on the frames already there, every exit pops exactly
\* one from a stack that is not empty, the end of an iteration pops one per
\* step, and when every scope has been left the stack is empty as it was
\* before the first entry.
C19_Balance ==
    [][/\ ( \/ Len(ctl') > Len(ctl) /\ Last(ctl').kind = "with"
            \/ Len(ctl') = Len(ctl) /\ ctl' # ctl )
           => /\ Len(frames') = Len(frames) + 1
              /\ Ids(Front(frames')) = Ids(frames)
       /\ (Len(ctl') < Len(ctl) /\ Last(ctl).kind = "with")
           => /\ frames # <<>>
              /\ Ids(frames') = Ids(Front(frames))
       /\ (Len(ctl') < Len(ctl) /\ Last(ctl).kind = "iter")
           => /\ Len(frames) >= Last(ctl).n
              /\ Ids(frames') = Ids(SubSeq(frames, 1, Len(frames) - Last(ctl).n))
       /\ ctl' = <<>> => frames' = <<>>]_vars

\* the keeping scope L1 has pushed three frames (in the shortest run by three
\* nested with-blocks) and every entry has been left: the stack is empty
\* again and the three frames are archived
C19_Witness ==
    /\ ev.op = "exit"
    /\ ev.h = "L1"
    /\ ctl = <<>>
    /\ frames = <<>>
    /\ Len(saved_frames["L1"]) = 3

\* the number of frames below those of the j-th open scope
BaseOf(c, j) == FramesOf(SubSeq(c, 1, j - 1))
\* the frames of the steps of the j-th open scope, an iteration, first step
\* first
StepFrames(j) == SubSeq(frames, BaseOf(ctl, j) + 1, BaseOf(ctl, j) + ctl[j].n)

\* C20: the frames of the steps of an iteration stay on the stack, in step
\* order, as long as the iteration is in progress: a step pushes its frame
\* directly on the frame of the step before, so that in step k the
\* innermost iteration has exactly k frames above its anchor; and when the
\* iteration finishes all its frames are popped, innermost first (a keeping
\* scope archives them in that order).
C20_StepsStack ==
    [][/\ \A j \in DOMAIN ctl :
            (ctl[j].kind = "iter" /\ j \in DOMAIN ctl' /\ ctl'[j].kind = "iter")
                => /\ ctl'[j].n >= ctl[j].n
                   /\ \A i \in 1..ctl[j].n :
                          frames'[BaseOf(ctl', j) + i].id = frames[BaseOf(ctl, j) + i].id
       /\ (ctl' # <<>> /\ Last(ctl').kind = "iter")
           => Len(frames') = BaseOf(ctl', Len(ctl')) + Last(ctl').n
       /\ (Len(ctl') < Len(ctl) /\ Last(ctl).kind = "iter")
           => /\ Ids(frames') = Ids(SubSeq(frames, 1, BaseOf(ctl, Len(ctl))))
              /\ Keep(Last(ctl).h)
                  => saved_frames'[Last(ctl).h]
                         = saved_frames[Last(ctl).h] \o Reverse(StepFrames(Len(ctl)))]_vars

\* a two-step iteration of the keeping scope, started on an empty stack, has
\* finished: both frames are popped, the frame of the second step first
C20_Witness ==
    /\ ev.op = "iter_end"
    /\ ev.h = "L1"
    /\ frames = <<>>
    /\ Ids(saved_frames["L1"]) = <<2, 1>>
====
